---- MODULE Spec2Model ----
(***************************************************************************)
(* State-machine model of ormi: the DB wrapper and its migration runner    *)
(* (src/db/DB.js), migration steps (src/migration/Migration.js) and the    *)
(* record registry / record base (src/model/Model.js).                     *)
(***************************************************************************)
EXTENDS Integers, Sequences, FiniteSets, TLC

\* ------------------------------------------------------------------ bounds
\* The DB constructor's initial version argument ranges over 0..MaxBase.
MaxBase == 2
\* At most this many addMigration calls on the DB object.
MaxMigrations == 3
\* At most this many tasks appended to one MigrationVersion object.
MaxTasks == 2

\* MigrationVersion objects the application has created.
Steps == {"m1", "m2"}

\* The old versions Migration.run is called with range over 0..MaxOld.
MaxOld == 2

\* At most this many steps appended to a Migration.
MaxSeq == 2

\* JavaScript's undefined, for fields that hold strings or object names.
Undef == "undefined"

VARIABLES
    dbVersion,      \* DB.#_version
    dbMigrations,   \* DB.#_migrations: sequence of MigrationVersion objects
    dbConnection,   \* DB.#_connection: "undefined" or "open"
    mvVersion,      \* MigrationVersion._version of each step object
    mvTasks,        \* MigrationVersion.#_tasks of each step object
    store,          \* the physical store: version, schema, committed step runs
    lastOpen,       \* outcome of the latest DB.connect call
    clases,         \* MetaData.clases: class name -> registered class
    classDb,        \* the own static _db of Model and of each declared class
    boundBy,        \* each class's own _db: "none", written by the latest shared
                    \* bind ("shared"), older than it ("before"), or set on the
                    \* class after it ("after")
    lastOp,         \* the latest registry / binding call and how it ended
    rows,           \* the records each table of the store holds
    saved,          \* the instance last written under each primary key
    lastQuery,      \* the latest query / persistence call and its result
    seqVersion,     \* Migration.#_version
    seqMigrations,  \* Migration.#_migrations: sequence of MigrationVersion objects
    lastRun,        \* outcome of the latest Migration.run call
    callers,        \* each caller of nextNewId: the id it was handed, if any
    order,          \* the keys of MetaData.clases in insertion order
    magic           \* the generated accessors: <<class, property name>> -> closure

migVars == <<dbVersion, dbMigrations, dbConnection, mvVersion, mvTasks, store, lastOpen>>
regVars == <<clases, classDb, boundBy, lastOp>>
recVars == <<rows, saved, lastQuery>>
seqVars == <<seqVersion, seqMigrations, lastRun>>
idVars == <<callers>>
genVars == <<order, magic>>
vars == <<migVars, regVars, recVars, seqVars, idVars, genVars>>

\* ------------------------------------------------------- migration steps

\* MigrationVersion.newTable: the task it pushes.
NewTableTask(table, key, autoincrement, indexes) ==
    [type |-> "new_table", table |-> table, key |-> key,
     autoincrement |-> autoincrement, indexes |-> indexes]

\* MigrationVersion.newIndexes: the task it pushes.
NewIndexTask(table, indexes) ==
    [type |-> "new_index", table |-> table, indexes |-> indexes]

\* IDBObjectStore.createIndex, once per name in order; a name the table
\* already has throws ConstraintError and ends the loop.
RECURSIVE CreateIndexes(_, _)
CreateIndexes(have, names) ==
    IF names = <<>> THEN [indexes |-> have, failed |-> FALSE]
    ELSE IF Head(names) \in have THEN [indexes |-> have, failed |-> TRUE]
    ELSE CreateIndexes(have \cup {Head(names)}, Tail(names))

\* The schema with table t set to description d.
WithTable(schema, t, d) ==
    [x \in DOMAIN schema \cup {t} |-> IF x = t THEN d ELSE schema[x]]

\* A variant of the switch that creates no index for the key of a new table.
RunTaskNoKeyIndex(schema, task) ==
    IF task.type = "new_table"
    THEN IF task.table \in DOMAIN schema
         THEN [schema |-> schema, failed |-> TRUE]
         ELSE LET r == CreateIndexes({}, task.indexes)
              IN [schema |-> WithTable(schema, task.table,
                                 [keyPath |-> "_" \o task.key,
                                  autoIncrement |-> task.autoincrement,
                                  indexes |-> r.indexes]),
                  failed |-> r.failed]
    ELSE IF task.table \notin DOMAIN schema
         THEN [schema |-> schema, failed |-> TRUE]
         ELSE LET r == CreateIndexes(schema[task.table].indexes, task.indexes)
              IN [schema |-> WithTable(schema, task.table,
                                 [schema[task.table] EXCEPT !.indexes = r.indexes]),
                  failed |-> r.failed]

\* One iteration of the switch in MigrationVersion.run.
RunTask(schema, task) ==
    IF task.type = "new_table"
    THEN IF task.table \in DOMAIN schema
         THEN [schema |-> schema, failed |-> TRUE]   \* createObjectStore throws
         ELSE LET r == CreateIndexes({}, <<task.key>> \o task.indexes)
              IN [schema |-> WithTable(schema, task.table,
                                 [keyPath |-> "_" \o task.key,
                                  autoIncrement |-> task.autoincrement,
                                  indexes |-> r.indexes]),
                  failed |-> r.failed]
    ELSE IF task.table \notin DOMAIN schema
         THEN [schema |-> schema, failed |-> TRUE]   \* transaction.objectStore throws
         ELSE LET r == CreateIndexes(schema[task.table].indexes, task.indexes)
              IN [schema |-> WithTable(schema, task.table,
                                 [schema[task.table] EXCEPT !.indexes = r.indexes]),
                  failed |-> r.failed]

\* A variant of the loop that catches a failing task and goes on.
RECURSIVE MigrationVersionRunSwallow(_, _, _, _)
MigrationVersionRunSwallow(pos, tasks, k, st) ==
    IF k > Len(tasks) THEN st
    ELSE LET r == RunTask(st.schema, tasks[k])
         IN MigrationVersionRunSwallow(pos, tasks, k + 1,
                [st EXCEPT !.schema = r.schema,
                           !.failed = st.failed \/ r.failed,
                           !.failedAt = IF r.failed /\ ~st.failed
                                        THEN Len(st.log) + 1 ELSE st.failedAt,
                           !.log = Append(st.log, <<pos, k>>)])

\* MigrationVersion.run(db, transaction) for the step at position pos of the
\* list: its tasks from the k-th on, in append order; a throwing task ends it.
RECURSIVE MigrationVersionRun(_, _, _, _)
MigrationVersionRun(pos, tasks, k, st) ==
    IF k > Len(tasks) \/ st.failed THEN st
    ELSE LET r == RunTask(st.schema, tasks[k])
         IN MigrationVersionRun(pos, tasks, k + 1,
                [st EXCEPT !.schema = r.schema,
                           !.failed = r.failed,
                           !.failedAt = IF r.failed THEN Len(st.log) + 1
                                        ELSE st.failedAt,
                           !.log = Append(st.log, <<pos, k>>)])

\* DB.migrar(db, old_version, new_version, transaction), from list position i.
RECURSIVE migrar(_, _, _)
migrar(old_version, i, st) ==
    IF i > Len(dbMigrations) \/ st.failed THEN st
    ELSE IF old_version < mvVersion[dbMigrations[i]] - 1
         THEN migrar(old_version, i + 1,
                  MigrationVersionRun(i, mvTasks[dbMigrations[i]], 1,
                                      [st EXCEPT !.ran = Append(st.ran, i)]))
         ELSE migrar(old_version, i + 1, st)

\* The state of an upgrade transaction when the upgrade callback is entered.
TxStart ==
    [schema |-> store.schema, failed |-> FALSE, failedAt |-> 0,
     log |-> <<>>, ran |-> <<>>]

\* idb.openDB(name, version, {upgrade}) as DB.connect calls it: the store's
\* version is compared with the requested one; a lower request is refused, an
\* equal one opens without calling upgrade, a higher one runs upgrade inside
\* one versionchange transaction, which commits when upgrade returns and is
\* aborted (schema and version restored) when it throws.
openDB(version) ==
    IF version < store.version
    THEN [status |-> "VersionError", upgraded |-> FALSE, tx |-> TxStart, store |-> store]
    ELSE IF version = store.version
    THEN [status |-> "ok", upgraded |-> FALSE, tx |-> TxStart, store |-> store]
    ELSE LET tx == migrar(store.version, 1, TxStart)
         IN IF tx.failed
            THEN [status |-> "AbortError", upgraded |-> TRUE, tx |-> tx, store |-> store]
            ELSE [status |-> "ok", upgraded |-> TRUE, tx |-> tx,
                  store |-> [version |-> version, schema |-> tx.schema,
                             applied |-> store.applied \o tx.ran]]

\* ---------------------------------------------------- migration sequence

\* The test of Migration.run: the step is newer than the store.
NewerOff(oldVersion, version) == oldVersion < version - 1

Newer(oldVersion, version) == oldVersion < version

\* Migration.run(db, oldVersion, newVersion, transaction), from list
\* position i: the steps in list order, each run when Newer lets it through;
\* a throwing step ends the loop.
RECURSIVE MigrationRun(_, _, _)
MigrationRun(oldVersion, i, st) ==
    IF i > Len(seqMigrations) \/ st.failed THEN st
    ELSE IF Newer(oldVersion, mvVersion[seqMigrations[i]])
         THEN MigrationRun(oldVersion, i + 1,
                  MigrationVersionRun(i, mvTasks[seqMigrations[i]], 1,
                                      [st EXCEPT !.ran = Append(st.ran, i)]))
         ELSE MigrationRun(oldVersion, i + 1, st)

\* No Migration.run call was made.
NoRun ==
    [op |-> "none", old |-> 0, versions |-> <<>>, tasks |-> <<>>, ran |-> <<>>,
     log |-> <<>>, failedAt |-> 0, before |-> <<>>]

\* Migration.add(migration).
add(m) ==
    /\ Len(seqMigrations) < MaxSeq
    /\ mvVersion' = [mvVersion EXCEPT ![m] = seqVersion]
    /\ seqVersion' = seqVersion + 1
    /\ seqMigrations' = Append(seqMigrations, m)
    /\ UNCHANGED <<dbVersion, dbMigrations, dbConnection, mvTasks, store, lastOpen>>
    /\ UNCHANGED lastRun
    /\ UNCHANGED <<regVars, recVars, idVars, genVars>>

\* Migration.run(db, oldVersion, newVersion, transaction), called with the
\* store's database and upgrade transaction: the transaction commits the
\* schema when run returns and is aborted when it throws.
run(oldVersion) ==
    LET tx == MigrationRun(oldVersion, 1, TxStart)
    IN /\ store' = IF tx.failed THEN store ELSE [store EXCEPT !.schema = tx.schema]
       /\ lastRun' = [op |-> "run", old |-> oldVersion,
                      versions |-> [i \in 1..Len(seqMigrations) |->
                                       mvVersion[seqMigrations[i]]],
                      tasks |-> [i \in 1..Len(seqMigrations) |->
                                    mvTasks[seqMigrations[i]]],
                      ran |-> tx.ran, log |-> tx.log, failedAt |-> tx.failedAt,
                      before |-> store.schema]
       /\ UNCHANGED <<dbVersion, dbMigrations, dbConnection, mvVersion, mvTasks, lastOpen>>
       /\ UNCHANGED <<seqVersion, seqMigrations>>
       /\ UNCHANGED <<regVars, recVars, idVars, genVars>>

\* A Migration without steps, never run.
NoSequence == seqMigrations = <<>> /\ lastRun = NoRun

\* ------------------------------------------------- registry and binding

\* A static getter the class does not override: the value comes from the
\* class it extends.
Inherit == "inherit"

\* The record classes the application declares, after the README's Cat:
\* what each extends, what its static table / class getters return, and the
\* value of its static indexes property: none (undefined) for a class
\* declared as the README shows, one list of index names for Bird.
TypeDecl ==
    [Cat     |-> [extends |-> "Model",  table |-> "cats",    class |-> "Cat",
                  indexes |-> {}],
     Dog     |-> [extends |-> "Model",  table |-> "dogs",    class |-> "Dog",
                  indexes |-> {}],
     Kitten  |-> [extends |-> "Cat",    table |-> "kittens", class |-> "Kitten",
                  indexes |-> {}],
     Tiger   |-> [extends |-> "Model",  table |-> "tigers",  class |-> "Cat",
                  indexes |-> {}],
     NoTable |-> [extends |-> "Model",  table |-> Inherit,   class |-> "NoTable",
                  indexes |-> {}],
     NoClass |-> [extends |-> "Model",  table |-> "things",  class |-> Inherit,
                  indexes |-> {}],
     Ghost   |-> [extends |-> "Model",  table |-> Undef,     class |-> "Ghost",
                  indexes |-> {}],
     Plain   |-> [extends |-> "Object", table |-> "plains",  class |-> "Plain",
                  indexes |-> {}],
     Bird    |-> [extends |-> "Model",  table |-> "birds",   class |-> "Bird",
                  indexes |-> {<<"id", "color">>}]]

Types == DOMAIN TypeDecl

\* The declared classes that can be registered, whose own _db is tracked.
Bindable == {"Cat", "Dog", "Kitten", "Tiger"}

\* The classes the binding scenario binds one by one: two unrelated classes
\* and a class that extends one of them.
Family == {"Cat", "Dog", "Kitten"}

\* DB instances, and values that are not: null and some other object.
DBs == {"d1", "d2"}
NotDBs == {"null", "other"}

\* clase.prototype instanceof Model: the class extends Model, at any depth.
RECURSIVE ExtendsModel(_)
ExtendsModel(c) ==
    IF c \notin Types THEN FALSE
    ELSE TypeDecl[c].extends = "Model" \/ ExtendsModel(TypeDecl[c].extends)

\* Model.table / Model.table_name on class c: 'Model' unless overridden.
RECURSIVE table_name(_)
table_name(c) ==
    IF c = "Model" THEN "Model"
    ELSE IF c \notin Types THEN Undef
    ELSE IF TypeDecl[c].table = Inherit THEN table_name(TypeDecl[c].extends)
    ELSE TypeDecl[c].table

\* Model.class / Model.class_name on class c: 'Model' unless overridden.
RECURSIVE class_name(_)
class_name(c) ==
    IF c = "Model" THEN "Model"
    ELSE IF c \notin Types THEN Undef
    ELSE IF TypeDecl[c].class = Inherit THEN class_name(TypeDecl[c].extends)
    ELSE TypeDecl[c].class

\* this._db read on class c: the own property, else the one of the class it
\* extends, down to Model's static field.
RECURSIVE LookupDb(_, _)
LookupDb(own, c) ==
    IF c \notin DOMAIN own THEN Undef
    ELSE IF own[c] # Undef \/ c = "Model" THEN own[c]
    ELSE LookupDb(own, TypeDecl[c].extends)

\* Model.db (getter) on class c: the store it resolves, "undefined" standing
\* for the thrown 'Si no se setea la db ...' error.
db(c) == LookupDb(classDb, c)

\* The registered classes.
Registered == {clases[n] : n \in DOMAIN clases}

\* A variant of registerClass without the class_name test.
registerClassNoClassCheck(reg, clase) ==
    IF ExtendsModel(clase)
    THEN IF table_name(clase) # Undef /\ table_name(clase) # "Model"
         THEN [err |-> "none",
               clases |-> [n \in DOMAIN reg \cup {class_name(clase)} |->
                              IF n = class_name(clase) THEN clase ELSE reg[n]]]
         ELSE [err |-> "ConfigurationError", clases |-> reg]
    ELSE [err |-> "ConfigurationError", clases |-> reg]

\* MetaData.registerClass(clase) on registry reg: the thrown error, if any,
\* and the registry afterwards (Map.set adds the key or replaces its value).
registerClass(reg, clase) ==
    IF ExtendsModel(clase)
    THEN IF table_name(clase) # Undef /\ table_name(clase) # "Model"
         THEN IF class_name(clase) # Undef /\ class_name(clase) # "Model"
              THEN [err |-> "none",
                    clases |-> [n \in DOMAIN reg \cup {class_name(clase)} |->
                                   IF n = class_name(clase) THEN clase ELSE reg[n]]]
              ELSE [err |-> "ConfigurationError", clases |-> reg]
         ELSE [err |-> "ConfigurationError", clases |-> reg]
    ELSE [err |-> "ConfigurationError", clases |-> reg]

\* A variant of MetaData.setDB that leaves classes with an own _db alone.
MetaDataSetDBKeepBound(own, d) ==
    [c \in DOMAIN own |-> IF c \in Registered /\ own[c] = Undef THEN d ELSE own[c]]

\* MetaData.setDB(db) for a DB instance: clase.db = db on every registered
\* class, each assignment landing on the class's own _db.
MetaDataSetDB(own, d) ==
    [c \in DOMAIN own |-> IF c \in Registered THEN d ELSE own[c]]

\* clase.indexes: the declared list of a class or of a class it extends, as
\* a set with that list; the empty set for undefined (Model has none).
RECURSIVE indexesOf(_)
indexesOf(c) ==
    IF c \notin Types THEN {}
    ELSE IF TypeDecl[c].indexes # {} THEN TypeDecl[c].indexes
    ELSE indexesOf(TypeDecl[c].extends)

\* MetaData.index_functions.
index_functions ==
    <<"allFromIndex", "allFromIndexCursor", "countFromIndex", "last", "first">>

\* MetaData.capitalize(word), on the index names in use.
capitalize == [id |-> "Id", color |-> "Color"]

\* The property name generateMagicMethods gives the accessor of a function
\* and an index: funct + this.capitalize(index).
AccessorName(funct, index) == funct \o capitalize[index]

\* The accessors generated for class clase, by <<class, property name>>:
\* each remembers the class, the function and the index it was made for.
\* (The names are distinct here, so no assignment overwrites another.)
AccessorsOf(clase) ==
    LET made == {[clase |-> clase, funct |-> index_functions[f], index |-> i] :
                     f \in DOMAIN index_functions,
                     i \in UNION {{q[j] : j \in DOMAIN q} : q \in indexesOf(clase)}}
    IN [k \in {<<a.clase, AccessorName(a.funct, a.index)>> : a \in made} |->
           CHOOSE a \in made : k = <<a.clase, AccessorName(a.funct, a.index)>>]

\* The loop of generateMagicMethods from the k-th registered class on, in the
\* order of the registry: iterating clase.indexes throws TypeError when it
\* is undefined; the accessors assigned before that stay.
RECURSIVE GenerateFrom(_, _)
GenerateFrom(k, have) ==
    IF k > Len(order) THEN [err |-> "none", magic |-> have]
    ELSE IF indexesOf(clases[order[k]]) = {}
    THEN [err |-> "TypeError", magic |-> have]
    ELSE LET new == AccessorsOf(clases[order[k]])
         IN GenerateFrom(k + 1,
                [x \in DOMAIN have \cup DOMAIN new |->
                    IF x \in DOMAIN new THEN new[x] ELSE have[x]])

\* MetaData.generateMagicMethods(): the error thrown, if any, and the
\* accessors afterwards.
generateMagicMethods == GenerateFrom(1, magic)

\* The record of a registry / binding call: the operation, the class it was
\* called on, whether its argument was a DB instance, the class setDB
\* returned, and the error thrown ("none" when it returned normally).
Op(op, target, v, ret, err) ==
    [op |-> op, target |-> target, valid |-> v \in DBs, ret |-> ret, err |-> err]

NoCopy == [proto |-> "none", db |-> Undef]

\* Model.register() on class c.
register(c) ==
    LET r == registerClass(clases, c)
    IN /\ clases' = r.clases
       /\ order' = IF r.err = "none" /\ class_name(c) \notin DOMAIN clases
                   THEN Append(order, class_name(c)) ELSE order
       /\ lastOp' = Op("register", c, Undef, NoCopy, r.err)
       /\ UNCHANGED <<classDb, boundBy, magic>>
       /\ UNCHANGED <<migVars, recVars, seqVars, idVars>>

\* The shared bind's effect on the bindings (setter, this === Model branch):
\* MetaData.setDB(db), then Model's own _db.
SharedBind(d) ==
    /\ classDb' = [MetaDataSetDB(classDb, d) EXCEPT !["Model"] = d]
    /\ boundBy' = [c \in DOMAIN boundBy |->
                      IF c \in Registered THEN "shared"
                      ELSE IF boundBy[c] = "none" THEN "none" ELSE "before"]

\* Model.db = v.
setModelDb(v) ==
    /\ IF v \in DBs
       THEN /\ SharedBind(v)
            /\ lastOp' = Op("Model.db", "Model", v, NoCopy, "none")
       ELSE /\ lastOp' = Op("Model.db", "Model", v, NoCopy, "ConfigurationError")
            /\ UNCHANGED <<classDb, boundBy>>
    /\ UNCHANGED clases
    /\ UNCHANGED <<migVars, recVars, seqVars, idVars, genVars>>

\* Model.init(v): the shared bind, then generateMagicMethods.
init(v) ==
    /\ IF v \in DBs
       THEN /\ SharedBind(v)
            /\ magic' = generateMagicMethods.magic
            /\ lastOp' = Op("init", "Model", v, NoCopy, generateMagicMethods.err)
       ELSE /\ lastOp' = Op("init", "Model", v, NoCopy, "ConfigurationError")
            /\ UNCHANGED <<classDb, boundBy, magic>>
    /\ UNCHANGED <<clases, order>>
    /\ UNCHANGED <<migVars, recVars, seqVars, idVars>>

\* c.db = v on a declared class c that extends Model.
setTypeDb(c, v) ==
    /\ IF v \in DBs /\ ExtendsModel(c)
       THEN /\ classDb' = [classDb EXCEPT ![c] = v]
            /\ boundBy' = [boundBy EXCEPT ![c] = "after"]
            /\ lastOp' = Op("T.db", c, v, NoCopy, "none")
       ELSE /\ lastOp' = Op("T.db", c, v, NoCopy, "ConfigurationError")
            /\ UNCHANGED <<classDb, boundBy>>
    /\ UNCHANGED clases
    /\ UNCHANGED <<migVars, recVars, seqVars, idVars, genVars>>

\* c.setDB(v): a copy made with Object.create(c) gets v as its own _db and is
\* returned; the setter run on the copy throws when the copy's prototype
\* property is no Model (c = Model). No class is touched.
setDB(c, v) ==
    /\ IF v \in DBs /\ ExtendsModel(c)
       THEN lastOp' = Op("setDB", c, v, [proto |-> c, db |-> v], "none")
       ELSE lastOp' = Op("setDB", c, v, NoCopy, "ConfigurationError")
    /\ UNCHANGED <<clases, classDb, boundBy>>
    /\ UNCHANGED <<migVars, recVars, seqVars, idVars, genVars>>

\* Nothing registered, nothing bound: the module as loaded.
InitRegistryVars ==
    /\ order = <<>>
    /\ magic = <<>>
    /\ clases = <<>>
    /\ classDb = [c \in Bindable \cup {"Bird", "Model"} |-> Undef]
    /\ boundBy = [c \in Bindable \cup {"Bird"} |-> "none"]
    /\ lastOp = Op("none", "Model", Undef, NoCopy, "none")


\* ------------------------------------------------------------- records

\* The concurrent callers of nextNewId, and a caller holding no id.
Callers == {"a", "b"}
NoId == [k |-> "none", n |-> 0]

\* A caller reserves ids down to -MaxLocal.
MaxLocal == 3

\* JavaScript values an id can take: a number, the decimal string of a
\* number, NaN and undefined.
Num(n) == [k |-> "number", n |-> n]
Str(n) == [k |-> "string", n |-> n]
NaN == [k |-> "NaN", n |-> 0]
UndefV == [k |-> "undefined", n |-> 0]

\* parseInt(value), as the id setter applies it.
parseInt(v) == IF v.k \in {"number", "string"} THEN Num(v.n) ELSE NaN

\* What a lookup that finds no record resolves to (undefined).
NoRecord == [k |-> "undefined"]

\* An object without own properties: what new Cat() builds.
EmptyInstance == <<>>

\* The README's Cat constructor on a raw object c:
\* this.id = c._id (the setter stores parseInt in _id); this.color = c._color.
Construct(c) ==
    [f \in {"_id", "color"} |->
        IF f = "_id"
        THEN parseInt(IF "_id" \in DOMAIN c THEN c["_id"] ELSE UndefV)
        ELSE IF "_color" \in DOMAIN c THEN c["_color"] ELSE Undef]

\* Model.instantiate(object = null): undefined takes the default, null.
instantiate(object) ==
    IF object # NoRecord THEN Construct(object) ELSE EmptyInstance

\* Model.prototype.isEmpty: Object.keys(this).length === 0.
isEmpty(inst) == DOMAIN inst = {}

\* A variant that names the key path of an index after the index itself.
KeyPathOfPlain(index) == index

\* The key path Migration gives the index called index: '_' + index.
KeyPathOf(index) == "_" \o index

\* The #connection of DB object d: only d1 is ever connected.
Connection(d) == IF d = "d1" THEN dbConnection ELSE Undef

\* A valid IndexedDB key among the id values: a number or a string.
ValidKey(v) == v.k \in {"number", "string"}

\* The error, if any, that stops a call on class c before it reaches the
\* table: no store bound, a DB without connection, a table the store lacks.
AccessError(c) ==
    IF db(c) = Undef THEN "UnboundStoreError"
    ELSE IF Connection(db(c)) = Undef THEN "TypeError"
    ELSE IF table_name(c) \notin DOMAIN store.schema THEN "NotFoundError"
    ELSE "none"

\* DB.getByIndex(table, index, key): connection.getFromIndex, the record
\* whose value at the index's key path is key, undefined when there is none.
getByIndex(table, index, key) ==
    LET hits == {r \in rows[table] :
                    KeyPathOf(index) \in DOMAIN r /\ r[KeyPathOf(index)] = key}
    IN IF index \notin store.schema[table].indexes
       THEN [err |-> "NotFoundError", value |-> NoRecord]
       ELSE IF ~ValidKey(key) THEN [err |-> "DataError", value |-> NoRecord]
       ELSE IF hits = {} THEN [err |-> "none", value |-> NoRecord]
       ELSE [err |-> "none", value |-> CHOOSE r \in hits : TRUE]

\* Model.get(id, index = 'id') on class c: the error or the instance.
ModelGet(c, id) ==
    IF AccessError(c) # "none"
    THEN [err |-> AccessError(c), inst |-> EmptyInstance]
    ELSE LET r == getByIndex(table_name(c), "id", id)
         IN [err |-> r.err,
             inst |-> IF r.err = "none" THEN instantiate(r.value) ELSE EmptyInstance]

\* At the time of a call on class c: a store is bound and connected, and it
\* holds the class's table with the id index.
Ready(c) ==
    /\ AccessError(c) = "none"
    /\ "id" \in store.schema[table_name(c)].indexes

\* The operations Model declares async: whatever is thrown inside them
\* comes out as a rejected promise.
AsyncOps == {"all", "allFromIndex", "allFromIndexCursor", "exists", "nextNewId"}

\* The operations that reach the store through DB.tx, where a missing table
\* or index and an invalid key throw at the call; the others go through the
\* connection's shortcut methods, which reject.
TxOps == {"first", "last", "save", "store"}

\* The error of operation op is thrown synchronously at the call: op is not
\* async, and the error is raised by the db getter, by a property access on
\* an undefined connection or a promise, or by a DB.tx step.
Thrown(op, err) ==
    /\ err # "none"
    /\ op \notin AsyncOps
    /\ \/ err \in {"UnboundStoreError", "TypeError"}
       \/ op \in TxOps /\ err \in {"NotFoundError", "DataError"}

\* The record of a query / persistence call.
Query(op, c, id, inst, found, err) ==
    [op |-> op, class |-> c, id |-> id, inst |-> inst, found |-> found,
     err |-> err, ready |-> Ready(c), registered |-> c \in Registered,
     thrown |-> Thrown(op, err), via |-> "direct", index |-> Undef,
     extreme |-> Undef, on |-> "class"]

\* c.get(id).
get(c, id) ==
    LET r == ModelGet(c, id)
    IN /\ lastQuery' = Query("get", c, id, r.inst, FALSE, r.err)
       /\ UNCHANGED <<rows, saved>>
       /\ UNCHANGED <<migVars, regVars, seqVars, idVars, genVars>>

\* c.exists(id): !(await this.get(id)).isEmpty().
exists(c, id) ==
    LET r == ModelGet(c, id)
    IN /\ lastQuery' = Query("exists", c, id, r.inst,
                             r.err = "none" /\ ~isEmpty(r.inst), r.err)
       /\ UNCHANGED <<rows, saved>>
       /\ UNCHANGED <<migVars, regVars, seqVars, idVars, genVars>>

\* DB.store(table, [inst]): one add in a readwrite transaction. The stored
\* value is the structured clone of the instance, its own properties; the
\* key is read at the table's key path. A missing key is generated only by
\* an autoincrement table (not modelled: every instance here has _id), an
\* invalid key throws DataError, a key the table holds fails the add with
\* ConstraintError and aborts the transaction.
DBStore(table, inst) ==
    LET kp == store.schema[table].keyPath
    IN IF kp \notin DOMAIN inst \/ ~ValidKey(inst[kp])
       THEN [err |-> "DataError", rows |-> rows]
       ELSE IF \E r \in rows[table] : r[kp] = inst[kp]
       THEN [err |-> "ConstraintError", rows |-> rows]
       ELSE [err |-> "none",
             rows |-> [rows EXCEPT ![table] = @ \cup {inst}]]

\* What inst.save() does to the table and the call record, for an instance
\* of class c: this.constructor.store([this]).
SaveEffect(c, inst) ==
    IF AccessError(c) # "none"
    THEN /\ lastQuery' = Query("save", c, UndefV, inst, FALSE, AccessError(c))
         /\ UNCHANGED <<rows, saved>>
    ELSE LET r == DBStore(table_name(c), inst)
         IN /\ rows' = r.rows
            /\ saved' = IF r.err = "none"
                        THEN [k \in DOMAIN saved \cup {inst["_id"]} |->
                                 IF k = inst["_id"] THEN inst ELSE saved[k]]
                        ELSE saved
            /\ lastQuery' = Query("save", c, UndefV, inst, FALSE, r.err)

\* inst.save() for an instance of class c.
save(c, inst) ==
    /\ SaveEffect(c, inst)
    /\ UNCHANGED <<migVars, regVars, seqVars, idVars, genVars>>

\* The order of IndexedDB keys: numbers by value, any number before any
\* string, strings (decimal numerals of one digit here) by value.
KeyLess(a, b) ==
    IF a.k = b.k THEN a.n < b.n ELSE a.k = "number"

\* The records of a table that an index holds: those with a valid key at the
\* index's key path.
InIndex(table, index) ==
    {r \in rows[table] :
        KeyPathOf(index) \in DOMAIN r /\ ValidKey(r[KeyPathOf(index)])}

\* DB.getAllFromIndexCursor(table, index, extreme): a cursor on the index's
\* first record in that direction, null (NoRecord) when the index is empty.
\* Records with equal keys come in primary key order.
getAllFromIndexCursor(table, index, extreme) ==
    LET kp == KeyPathOf(index)
        Before(a, b) == \/ KeyLess(a[kp], b[kp])
                        \/ a[kp] = b[kp] /\ KeyLess(a["_id"], b["_id"])
        recs == InIndex(table, index)
    IN IF index \notin store.schema[table].indexes
       THEN [err |-> "NotFoundError", value |-> NoRecord]
       ELSE IF extreme \notin {"next", "prev"}
       THEN [err |-> "TypeError", value |-> NoRecord]
       ELSE IF recs = {} THEN [err |-> "none", value |-> NoRecord]
       ELSE [err |-> "none",
             value |-> IF extreme = "next"
                       THEN CHOOSE r \in recs : \A o \in recs \ {r} : Before(r, o)
                       ELSE CHOOSE r \in recs : \A o \in recs \ {r} : Before(o, r)]

\* DB.getMaxFromIndex(table, index).
getMaxFromIndex(table, index) == getAllFromIndexCursor(table, index, "prev")

\* A variant of getMinFromIndex that opens the cursor backwards.
getMinFromIndexBackwards(table, index) == getAllFromIndexCursor(table, index, "prev")

\* DB.getMinFromIndex(table, index).
getMinFromIndex(table, index) == getAllFromIndexCursor(table, index, "next")

\* Model.first(index) on class c: instantiate(obj ? obj.value : null).
ModelFirst(c, index) ==
    IF AccessError(c) # "none"
    THEN [err |-> AccessError(c), inst |-> EmptyInstance]
    ELSE LET r == getMinFromIndex(table_name(c), index)
         IN [err |-> r.err,
             inst |-> IF r.err = "none" THEN instantiate(r.value) ELSE EmptyInstance]

\* Model.nextNewId() on class c: -1 when first() is empty or its id is not
\* negative, else first.id - 1.
ModelNextNewId(c) ==
    LET f == ModelFirst(c, "id")
    IN IF f.err # "none" THEN [err |-> f.err, id |-> UndefV, first |-> f.inst]
       ELSE IF isEmpty(f.inst) THEN [err |-> "none", id |-> Num(-1), first |-> f.inst]
       ELSE IF f.inst["_id"].k # "number"
       THEN [err |-> "none", id |-> NaN, first |-> f.inst]
       ELSE IF f.inst["_id"].n >= 0
       THEN [err |-> "none", id |-> Num(-1), first |-> f.inst]
       ELSE [err |-> "none", id |-> Num(f.inst["_id"].n - 1), first |-> f.inst]

\* c.nextNewId().
nextNewId(c) ==
    LET r == ModelNextNewId(c)
    IN /\ lastQuery' = Query("nextNewId", c, r.id, r.first, FALSE, r.err)
       /\ UNCHANGED <<rows, saved>>
       /\ UNCHANGED <<migVars, regVars, seqVars, idVars, genVars>>

\* Caller p awaits c.nextNewId() and keeps the id it resolves to.
callerNextNewId(p, c) ==
    LET r == ModelNextNewId(c)
    IN /\ callers[p] = NoId
       /\ r.err = "none"
       /\ r.id.n >= -MaxLocal
       /\ callers' = [callers EXCEPT ![p] = r.id]
       /\ lastQuery' = Query("nextNewId", c, r.id, r.first, FALSE, r.err)
       /\ UNCHANGED <<rows, saved>>
       /\ UNCHANGED <<migVars, regVars, seqVars, genVars>>

\* Caller p saves a record of class c under the id it holds.
callerSave(p, c) ==
    /\ callers[p] # NoId
    /\ SaveEffect(c, Construct([f \in {"_id"} |-> callers[p]]))
    /\ callers' = [callers EXCEPT ![p] = NoId]
    /\ UNCHANGED <<migVars, regVars, seqVars, genVars>>

\* ---------------------------------------------------- other operations

\* The entry of the written-records map for key k replaced by instance inst.
Written(k, inst) ==
    [x \in DOMAIN saved \cup {k} |-> IF x = k THEN inst ELSE saved[x]]

\* The written-records map without the entry for key k.
Unwritten(k) == [x \in DOMAIN saved \ {k} |-> saved[x]]

\* A call that changes no record: its outcome r goes to the call record.
Answer(op, c, id, r) ==
    /\ lastQuery' = Query(op, c, id, r.inst, FALSE, r.err)
    /\ UNCHANGED <<rows, saved>>
    /\ UNCHANGED <<migVars, regVars, seqVars, idVars, genVars>>

\* The records recs as a sequence in the order of the index: by key, records
\* with equal keys by primary key.
RECURSIVE InOrder(_, _)
InOrder(recs, index) ==
    IF recs = {} THEN <<>>
    ELSE LET kp == KeyPathOf(index)
             Before(a, b) == \/ KeyLess(a[kp], b[kp])
                             \/ a[kp] = b[kp] /\ KeyLess(a["_id"], b["_id"])
             r == CHOOSE x \in recs : \A o \in recs \ {x} : Before(x, o)
         IN <<r>> \o InOrder(recs \ {r}, index)

\* Model.instantiateArray(objects).
instantiateArray(objects) ==
    [j \in 1..Len(objects) |-> instantiate(objects[j])]

\* Model.all() on class c: DB.getAll, the records in primary key order.
ModelAll(c) ==
    IF AccessError(c) # "none"
    THEN [err |-> AccessError(c), inst |-> <<>>]
    ELSE [err |-> "none",
          inst |-> instantiateArray(InOrder(rows[table_name(c)], "id"))]

\* connection.getAllFromIndex / countFromIndex(table, index, key): the
\* records of the index with that key, all of them when key is undefined.
FromIndex(table, index, key) ==
    IF index \notin store.schema[table].indexes
    THEN [err |-> "NotFoundError", recs |-> {}]
    ELSE IF key = UndefV THEN [err |-> "none", recs |-> InIndex(table, index)]
    ELSE IF ~ValidKey(key) THEN [err |-> "DataError", recs |-> {}]
    ELSE [err |-> "none",
          recs |-> {r \in InIndex(table, index) : r[KeyPathOf(index)] = key}]

\* Model.allFromIndex(index, key) on class c.
ModelAllFromIndex(c, index, key) ==
    IF AccessError(c) # "none"
    THEN [err |-> AccessError(c), inst |-> <<>>]
    ELSE LET r == FromIndex(table_name(c), index, key)
         IN [err |-> r.err, inst |-> instantiateArray(InOrder(r.recs, index))]

\* Model.countFromIndex(index, key) on class c.
ModelCountFromIndex(c, index, key) ==
    IF AccessError(c) # "none"
    THEN [err |-> AccessError(c), inst |-> Num(0)]
    ELSE LET r == FromIndex(table_name(c), index, key)
         IN [err |-> r.err, inst |-> Num(Cardinality(r.recs))]

\* Model.count() on class c.
ModelCount(c) ==
    IF AccessError(c) # "none"
    THEN [err |-> AccessError(c), inst |-> Num(0)]
    ELSE [err |-> "none", inst |-> Num(Cardinality(rows[table_name(c)]))]

\* Model.last(index) on class c: instantiate(obj ? obj.value : null).
ModelLast(c, index) ==
    IF AccessError(c) # "none"
    THEN [err |-> AccessError(c), inst |-> EmptyInstance]
    ELSE LET r == getMaxFromIndex(table_name(c), index)
         IN [err |-> r.err,
             inst |-> IF r.err = "none" THEN instantiate(r.value) ELSE EmptyInstance]

\* Model.allFromIndexCursor(index, extreme = 'next') on class c: the cursor,
\* given by the raw record it stands on (NoRecord for null).
ModelAllFromIndexCursor(c, index, extreme) ==
    IF AccessError(c) # "none"
    THEN [err |-> AccessError(c), inst |-> NoRecord]
    ELSE LET r == getAllFromIndexCursor(table_name(c), index,
                      IF extreme = Undef THEN "next" ELSE extreme)
         IN [err |-> r.err, inst |-> r.value]

\* c.all().
all(c) == Answer("all", c, UndefV, ModelAll(c))

\* c.allFromIndex(index, key).
allFromIndex(c, index, key) ==
    Answer("allFromIndex", c, key, ModelAllFromIndex(c, index, key))

\* c.countFromIndex(index, key).
countFromIndex(c, index, key) ==
    Answer("countFromIndex", c, key, ModelCountFromIndex(c, index, key))

\* c.allFromIndexCursor(index, extreme).
allFromIndexCursor(c, index, extreme) ==
    Answer("allFromIndexCursor", c, UndefV, ModelAllFromIndexCursor(c, index, extreme))

\* c.count().
count(c) == Answer("count", c, UndefV, ModelCount(c))

\* c.first(index).
first(c, index) == Answer("first", c, UndefV, ModelFirst(c, index))

\* c.last(index).
last(c, index) == Answer("last", c, UndefV, ModelLast(c, index))

\* if (args) in a generated accessor: whether the argument counts as given.
\* undefined, NaN, 0 and the empty string do not.
Truthy(funct, arg) ==
    IF funct = "allFromIndexCursor" THEN arg \notin {Undef, ""}
    ELSE /\ arg.k \notin {"undefined", "NaN"}
         /\ ~(arg.k = "number" /\ arg.n = 0)

\* The second parameter of function funct when the call passes none.
Missing(funct) == IF funct = "allFromIndexCursor" THEN Undef ELSE UndefV

\* clase[funct](index, arg): the static function named funct of class c.
\* first and last take the index only.
DirectCall(c, funct, index, arg) ==
    CASE funct = "allFromIndex" -> ModelAllFromIndex(c, index, arg)
      [] funct = "countFromIndex" -> ModelCountFromIndex(c, index, arg)
      [] funct = "allFromIndexCursor" -> ModelAllFromIndexCursor(c, index, arg)
      [] funct = "first" -> ModelFirst(c, index)
      [] funct = "last" -> ModelLast(c, index)

\* c[name](arg) for a generated accessor: clase[funct](index, ...arguments)
\* when the argument is truthy, clase[funct](index) otherwise; TypeError
\* (not a function) when c has no property of that name.
MagicCall(c, name, arg) ==
    IF <<c, name>> \notin DOMAIN magic
    THEN [err |-> "TypeError", inst |-> EmptyInstance]
    ELSE LET a == magic[<<c, name>>]
         IN DirectCall(a.clase, a.funct, a.index,
                       IF Truthy(a.funct, arg) THEN arg ELSE Missing(a.funct))

\* c.<funct><Index>(arg): the accessor generated for function funct and
\* index index, called with one argument, a key or a cursor direction.
magicCall(c, funct, index, arg) ==
    LET r == MagicCall(c, AccessorName(funct, index), arg)
        cursor == funct = "allFromIndexCursor"
    IN /\ lastQuery' =
             [Query(funct, c, IF cursor THEN UndefV ELSE arg, r.inst, FALSE, r.err)
                 EXCEPT !.via = AccessorName(funct, index),
                        !.index = index,
                        !.extreme = IF cursor THEN arg ELSE Undef]
       /\ UNCHANGED <<rows, saved>>
       /\ UNCHANGED <<migVars, regVars, seqVars, idVars, genVars>>

\* The error, if any, that stops a call on the copy cp = Object.create(T)
\* with its own _db before it reaches the table: this.db is the copy's own
\* store, this.table_name the table of T.
CopyAccessError(cp) ==
    IF Connection(cp.db) = Undef THEN "TypeError"
    ELSE IF table_name(cp.proto) \notin DOMAIN store.schema THEN "NotFoundError"
    ELSE "none"

\* The query functions of Model called with this = cp: the store calls go to
\* the copy's store; this.instantiate runs new this(...), and the copy is an
\* ordinary object, not a constructor, so it throws TypeError whenever it is
\* reached (instantiateArray reaches it once per record).
CopyCall(cp, op, id) ==
    LET t == table_name(cp.proto)
        acc == CopyAccessError(cp)
        Fails(e) == [err |-> e, inst |-> EmptyInstance]
        Instantiated(r) == IF r.err # "none" THEN Fails(r.err) ELSE Fails("TypeError")
    IN CASE op = "count" ->
              IF acc # "none" THEN [err |-> acc, inst |-> Num(0)]
              ELSE [err |-> "none", inst |-> Num(Cardinality(rows[t]))]
         [] op = "all" ->
              IF acc # "none" THEN Fails(acc)
              ELSE IF rows[t] = {} THEN [err |-> "none", inst |-> <<>>]
              ELSE Fails("TypeError")
         [] op \in {"get", "exists"} ->
              IF acc # "none" THEN Fails(acc)
              ELSE Instantiated(getByIndex(t, "id", id))
         [] op = "first" ->
              IF acc # "none" THEN Fails(acc)
              ELSE Instantiated(getMinFromIndex(t, "id"))
         [] op = "last" ->
              IF acc # "none" THEN Fails(acc)
              ELSE Instantiated(getMaxFromIndex(t, "id"))

\* The copy the application holds: the one the latest setDB call returned.
HeldCopy == lastOp.ret

\* A copy is held.
HasCopy == lastOp.op = "setDB" /\ lastOp.err = "none"

\* copy.count(), copy.get(id), copy.all(), copy.first(), copy.last(),
\* copy.exists(id) on the held copy.
copyQuery(op, id) ==
    /\ HasCopy
    /\ LET r == CopyCall(HeldCopy, op, id)
       IN lastQuery' = [Query(op, HeldCopy.proto, id, r.inst, FALSE, r.err)
                           EXCEPT !.on = "copy"]
    /\ UNCHANGED <<rows, saved>>
    /\ UNCHANGED <<migVars, regVars, seqVars, idVars, genVars>>

\* copy.<funct><Index>(arg) on the held copy: the property is found on T, and
\* the function it holds calls clase[funct] on the class it was generated
\* for, not on this.
copyMagicCall(funct, index, arg) ==
    /\ HasCopy
    /\ LET r == MagicCall(HeldCopy.proto, AccessorName(funct, index), arg)
           cursor == funct = "allFromIndexCursor"
       IN lastQuery' =
             [Query(funct, HeldCopy.proto, IF cursor THEN UndefV ELSE arg,
                    r.inst, FALSE, r.err)
                 EXCEPT !.via = AccessorName(funct, index),
                        !.index = index,
                        !.extreme = IF cursor THEN arg ELSE Undef,
                        !.on = "copy"]
    /\ UNCHANGED <<rows, saved>>
    /\ UNCHANGED <<migVars, regVars, seqVars, idVars, genVars>>

\* c.remove(id) (static): instance = this.get(id, index) is a promise, and
\* instance.remove is not a function; get's own synchronous errors come first.
remove(c, id) ==
    Answer("remove", c, id,
           [err |-> IF db(c) = Undef THEN "UnboundStoreError" ELSE "TypeError",
            inst |-> EmptyInstance])

\* inst.remove() for an instance of class c: DB.remove,
\* connection.delete(instance.table_name, instance.id).
removeInstance(c, inst) ==
    LET key == IF "_id" \in DOMAIN inst THEN inst["_id"] ELSE UndefV
        err == IF AccessError(c) # "none" THEN AccessError(c)
               ELSE IF ~ValidKey(key) THEN "DataError" ELSE "none"
        t == table_name(c)
    IN /\ lastQuery' = Query("removeInstance", c, key, inst, FALSE, err)
       /\ rows' = IF err = "none"
                  THEN [rows EXCEPT ![t] = {r \in @ : r["_id"] # key}]
                  ELSE rows
       /\ saved' = IF err = "none" THEN Unwritten(key) ELSE saved
       /\ UNCHANGED <<migVars, regVars, seqVars, idVars, genVars>>

\* inst.update() for an instance of class c: DB.update,
\* connection.put(instance.table_name, instance), which replaces the record
\* under the instance's key or adds it.
update(c, inst) ==
    LET key == IF "_id" \in DOMAIN inst THEN inst["_id"] ELSE UndefV
        err == IF AccessError(c) # "none" THEN AccessError(c)
               ELSE IF ~ValidKey(key) THEN "DataError" ELSE "none"
        t == table_name(c)
    IN /\ lastQuery' = Query("update", c, key, inst, FALSE, err)
       /\ rows' = IF err = "none"
                  THEN [rows EXCEPT ![t] = {r \in @ : r["_id"] # key} \cup {inst}]
                  ELSE rows
       /\ saved' = IF err = "none" THEN Written(key, inst) ELSE saved
       /\ UNCHANGED <<migVars, regVars, seqVars, idVars, genVars>>

\* The first loop of DB.store: array.map(e => tx.store.add(e)) from the k-th
\* element on. An add whose value has no valid key throws DataError out of
\* DB.store; the adds issued before it stay queued in the transaction.
RECURSIVE IssueAdds(_, _, _, _)
IssueAdds(table, array, k, queued) ==
    LET kp == store.schema[table].keyPath
    IN IF k > Len(array) THEN [thrownAt |-> 0, queued |-> queued]
       ELSE IF kp \notin DOMAIN array[k] \/ ~ValidKey(array[k][kp])
       THEN [thrownAt |-> k, queued |-> queued]
       ELSE IssueAdds(table, array, k + 1, Append(queued, array[k]))

\* The queued adds executed in order on the records have: an add whose key
\* is already there fails with ConstraintError, which aborts the transaction.
RECURSIVE ExecuteAdds(_, _, _, _)
ExecuteAdds(table, queued, k, have) ==
    LET kp == store.schema[table].keyPath
    IN IF k > Len(queued) THEN [failedAt |-> 0, recs |-> have]
       ELSE IF \E r \in have : r[kp] = queued[k][kp]
       THEN [failedAt |-> k, recs |-> have]
       ELSE ExecuteAdds(table, queued, k + 1, have \cup {queued[k]})

\* A variant of DB.store that reports success whatever the adds did and
\* keeps the records that could be added.
DBStoreArraySettled(table, array) ==
    LET q == IssueAdds(table, array, 1, <<>>)
        x == ExecuteAdds(table, q.queued, 1, rows[table])
    IN [err |-> "none", at |-> 0, recs |-> x.recs]

\* DB.store(table, array): the adds are issued in one readwrite transaction
\* and tx.done is returned. A throwing add ends the call with its error while
\* the transaction runs on with the adds queued so far; a failing add
\* aborts the transaction and tx.done rejects with that add's error; else
\* tx.done resolves once the transaction has committed every add.
DBStoreArray(table, array) ==
    LET q == IssueAdds(table, array, 1, <<>>)
        x == ExecuteAdds(table, q.queued, 1, rows[table])
        kept == IF x.failedAt > 0 THEN rows[table] ELSE x.recs
    IN IF q.thrownAt > 0
       THEN [err |-> "DataError", at |-> q.thrownAt, recs |-> kept]
       ELSE IF x.failedAt > 0
       THEN [err |-> "ConstraintError", at |-> x.failedAt, recs |-> kept]
       ELSE [err |-> "none", at |-> 0, recs |-> kept]

\* c.store(objs): this.db.store(this.table_name, objs).
storeArray(c, objs) ==
    IF AccessError(c) # "none"
    THEN /\ lastQuery' = Query("store", c, UndefV, objs, FALSE, AccessError(c))
         /\ UNCHANGED <<rows, saved>>
         /\ UNCHANGED <<migVars, regVars, seqVars, idVars, genVars>>
    ELSE LET r == DBStoreArray(table_name(c), objs)
             new == r.recs \ rows[table_name(c)]
         IN /\ rows' = [rows EXCEPT ![table_name(c)] = r.recs]
            /\ saved' = [k \in DOMAIN saved \cup {i["_id"] : i \in new} |->
                            IF \E i \in new : i["_id"] = k
                            THEN CHOOSE i \in new : i["_id"] = k
                            ELSE saved[k]]
            /\ lastQuery' = Query("store", c, Num(r.at), objs, FALSE, r.err)
            /\ UNCHANGED <<migVars, regVars, seqVars, idVars, genVars>>

\* No table holds a record and no call was made.
InitRecordVars ==
    /\ callers = [p \in Callers |-> NoId]
    /\ rows = [t \in {"cats", "dogs", "birds"} |-> {}]
    /\ saved = <<>>
    /\ lastQuery = Query("none", "Model", UndefV, EmptyInstance, FALSE, "none")


\* ------------------------------------------------------------- actions

\* task.table in newTable / newIndexes: model.table when model is a class
\* that extends Model, the value passed (a table name) otherwise.
TaskTable(model) ==
    IF ExtendsModel(model) THEN table_name(model) ELSE model

\* MigrationVersion.newTable(model, key, autoincrement, indexes) on step m.
newTable(m, model, key, autoincrement, indexes) ==
    /\ Len(mvTasks[m]) < MaxTasks
    /\ mvTasks' = [mvTasks EXCEPT ![m] =
                      Append(@, NewTableTask(TaskTable(model), key, autoincrement,
                                             indexes))]
    /\ UNCHANGED <<dbVersion, dbMigrations, dbConnection, mvVersion, store, lastOpen>>
    /\ UNCHANGED <<regVars, recVars, seqVars, idVars, genVars>>

\* MigrationVersion.newIndexes(model, indexes) on step m.
newIndexes(m, model, indexes) ==
    /\ Len(mvTasks[m]) < MaxTasks
    /\ mvTasks' = [mvTasks EXCEPT ![m] =
                      Append(@, NewIndexTask(TaskTable(model), indexes))]
    /\ UNCHANGED <<dbVersion, dbMigrations, dbConnection, mvVersion, store, lastOpen>>
    /\ UNCHANGED <<regVars, recVars, seqVars, idVars, genVars>>

\* DB.addMigration(migration).
addMigration(m) ==
    /\ Len(dbMigrations) < MaxMigrations
    /\ mvVersion' = [mvVersion EXCEPT ![m] = dbVersion]
    /\ dbVersion' = dbVersion + 1
    /\ dbMigrations' = Append(dbMigrations, m)
    /\ UNCHANGED <<dbConnection, mvTasks, store, lastOpen>>
    /\ UNCHANGED <<regVars, recVars, seqVars, idVars, genVars>>

\* DB.connect().
connect ==
    IF Len(dbMigrations) > 0
    THEN LET r == openDB(dbVersion)
         IN /\ store' = r.store
            /\ dbConnection' = IF r.status = "ok" THEN "open" ELSE dbConnection
            /\ lastOpen' = [status |-> r.status, upgraded |-> r.upgraded,
                            old |-> store.version, new |-> dbVersion,
                            len |-> Len(dbMigrations),
                            versions |-> [i \in 1..Len(dbMigrations) |->
                                             mvVersion[dbMigrations[i]]],
                            ran |-> r.tx.ran, log |-> r.tx.log,
                            failedAt |-> r.tx.failedAt, before |-> store]
            /\ UNCHANGED <<dbVersion, dbMigrations, mvVersion, mvTasks>>
            /\ UNCHANGED <<regVars, recVars, seqVars, idVars, genVars>>
    ELSE /\ lastOpen' = [lastOpen EXCEPT !.status = "NoMigrations"]
         /\ UNCHANGED <<dbVersion, dbMigrations, dbConnection, mvVersion, mvTasks, store>>
         /\ UNCHANGED <<regVars, recVars, seqVars, idVars, genVars>>

\* --------------------------------------------------- migration scenario

NoOpen ==
    [status |-> "none", upgraded |-> FALSE, old |-> 0, new |-> 0, len |-> 0,
     versions |-> <<>>, ran |-> <<>>, log |-> <<>>, failedAt |-> 0,
     before |-> [version |-> 0, schema |-> <<>>, applied |-> <<>>]]

\* The DB object's other fields after the constructor, and an unopened store.
FreshDB ==
    /\ dbMigrations = <<>>
    /\ dbConnection = Undef
    /\ mvVersion = [m \in Steps |-> -1]
    /\ mvTasks = [m \in Steps |-> <<>>]
    /\ store = [version |-> 0, schema |-> <<>>, applied |-> <<>>]
    /\ lastOpen = NoOpen

\* A DB object fresh from its constructor, step objects without tasks, and a
\* store that was never opened.
InitMigration ==
    /\ dbVersion \in 0..MaxBase
    /\ FreshDB
    /\ InitRegistryVars
    /\ InitRecordVars
    /\ seqVersion = 0
    /\ NoSequence

NextMigration ==
    \/ \E m \in Steps : newTable(m, "cats", "id", TRUE, <<>>)
    \/ \E m \in Steps : newIndexes(m, "cats", <<"color">>)
    \/ \E m \in Steps : addMigration(m)
    \/ connect

SpecMigration == InitMigration /\ [][NextMigration]_vars

\* ---------------------------------------------------- sequence scenario

\* A Migration created at a base version, step objects without tasks, a
\* store that was never opened.
InitSequence ==
    /\ dbVersion = 0
    /\ FreshDB
    /\ InitRegistryVars
    /\ InitRecordVars
    /\ seqVersion \in 0..1
    /\ NoSequence

NextSequence ==
    \/ newTable("m1", "cats", "id", TRUE, <<"color">>)
    \/ newTable("m2", "dogs", "name", FALSE, <<>>)
    \/ \E m \in Steps : newIndexes(m, "cats", <<"age">>)
    \/ \E m \in Steps : add(m)
    \/ \E old \in 0..MaxOld : run(old)

SpecSequence == InitSequence /\ [][NextSequence]_vars

\* ---------------------------------------------------- registry scenario

InitRegistry ==
    /\ dbVersion = 0
    /\ FreshDB
    /\ InitRegistryVars
    /\ InitRecordVars
    /\ seqVersion = 0
    /\ NoSequence

NextRegistry ==
    \/ \E c \in Types : register(c)
    \/ \E v \in DBs \cup NotDBs : setModelDb(v)
    \/ \E v \in DBs \cup NotDBs : init(v)

SpecRegistry == InitRegistry /\ [][NextRegistry]_vars

\* ----------------------------------------------------- binding scenario

NextBinding ==
    \/ \E c \in Family : register(c)
    \/ \E v \in DBs \cup NotDBs : setModelDb(v)
    \/ \E v \in DBs \cup NotDBs : init(v)
    \/ \E c \in Family, v \in DBs \cup NotDBs : setTypeDb(c, v)
    \/ \E c \in Family \cup {"Model"}, v \in DBs \cup NotDBs : setDB(c, v)

SpecBinding == InitRegistry /\ [][NextBinding]_vars

\* ------------------------------------------------------ record scenario

\* The raw objects the application passes to new Cat(c).
CtorArgs ==
    {[f \in {"_id"} |-> v] : v \in {Num(1), Str(2)}}
    \cup {[f \in {"_id", "_color"} |-> IF f = "_id" THEN v ELSE "black"] :
              v \in {Num(1), Str(2)}}

\* The instances the application saves.
Instances == {Construct(c) : c \in CtorArgs}

\* The ids the application asks for.
QueryIds == {Num(1), Num(2), Num(3), Str(1)}

\* A DB created at version 2 with one step that creates the cats table (the
\* state addMigration leaves), not yet connected; nothing registered or bound.
InitRecords ==
    /\ dbVersion = 3
    /\ dbMigrations = <<"m1">>
    /\ dbConnection = Undef
    /\ mvVersion = [m \in Steps |-> IF m = "m1" THEN 2 ELSE -1]
    /\ mvTasks = [m \in Steps |->
                     IF m = "m1" THEN <<NewTableTask("cats", "id", TRUE, <<>>)>>
                     ELSE <<>>]
    /\ store = [version |-> 0, schema |-> <<>>, applied |-> <<>>]
    /\ lastOpen = NoOpen
    /\ InitRegistryVars
    /\ InitRecordVars
    /\ seqVersion = 0
    /\ NoSequence

NextRecords ==
    \/ connect
    \/ \E c \in {"Cat", "Dog"} : register(c)
    \/ \E v \in DBs : setModelDb(v)
    \/ \E c \in {"Cat", "Dog"}, i \in Instances : save(c, i)
    \/ \E c \in {"Cat", "Dog"}, id \in QueryIds : get(c, id)
    \/ \E c \in {"Cat", "Dog"}, id \in QueryIds : exists(c, id)

SpecRecords == InitRecords /\ [][NextRecords]_vars

\* --------------------------------------------------------- id scenario

\* The instances saved with an id of the application's choice.
IdInstances == {Construct([f \in {"_id"} |-> Num(n)]) : n \in {-2, 0, 2}}

NextIds ==
    \/ connect
    \/ setModelDb("d1")
    \/ \E i \in IdInstances : save("Cat", i)
    \/ nextNewId("Cat")
    \/ \E p \in Callers : callerNextNewId(p, "Cat")
    \/ \E p \in Callers : callerSave(p, "Cat")

SpecIds == InitRecords /\ [][NextIds]_vars

\* -------------------------------------------------- operation scenario

\* What new Cat({}) builds: no valid id.
BadInstance == Construct(<<>>)

\* At most this many objects in one store call.
MaxBatch == 2

\* The arrays the application passes to store.
Batches ==
    {<<>>} \cup {<<i>> : i \in Instances \cup {BadInstance}}
    \cup {<<i, j>> : i \in Instances \cup {BadInstance},
                     j \in Instances \cup {BadInstance}}

NextOperations ==
    \/ connect
    \/ setModelDb("d1")
    \/ \E b \in {q \in Batches : Len(q) <= MaxBatch} : storeArray("Cat", b)
    \/ \E i \in Instances : save("Cat", i)
    \/ \E i \in Instances \cup {EmptyInstance} : update("Cat", i)
    \/ \E i \in Instances \cup {EmptyInstance} : removeInstance("Cat", i)
    \/ \E id \in QueryIds : remove("Cat", id)
    \/ \E id \in QueryIds : get("Cat", id)
    \/ \E id \in QueryIds : exists("Cat", id)
    \/ all("Cat")
    \/ count("Cat")
    \/ \E k \in {UndefV, Num(1)} : allFromIndex("Cat", "id", k)
    \/ first("Cat", "id")
    \/ last("Cat", "id")
    \/ nextNewId("Cat")

SpecOperations == InitRecords /\ [][NextOperations]_vars

\* --------------------------------------------------- accessor scenario

\* The instances of Bird the application saves.
BirdInstances == {Construct([f \in {"_id"} |-> Num(n)]) : n \in {0, 1}}

\* The keys and the cursor directions the application passes to an accessor:
\* a falsy one and a truthy one.
KeyArgs == {Num(0), Num(1)}
CursorArgs == {"", "prev"}

\* As InitRecords, with a step that creates the birds table and its color
\* index.
InitAccessors ==
    /\ dbVersion = 3
    /\ dbMigrations = <<"m1">>
    /\ dbConnection = Undef
    /\ mvVersion = [m \in Steps |-> IF m = "m1" THEN 2 ELSE -1]
    /\ mvTasks = [m \in Steps |->
                     IF m = "m1"
                     THEN <<NewTableTask("birds", "id", TRUE, <<"color">>)>>
                     ELSE <<>>]
    /\ store = [version |-> 0, schema |-> <<>>, applied |-> <<>>]
    /\ lastOpen = NoOpen
    /\ InitRegistryVars
    /\ InitRecordVars
    /\ seqVersion = 0
    /\ NoSequence

NextAccessors ==
    \/ connect
    \/ \E c \in {"Bird", "Cat"} : register(c)
    \/ init("d1")
    \/ \E i \in BirdInstances : save("Bird", i)
    \/ \E f \in {"allFromIndex", "countFromIndex", "first", "last"},
          i \in {"id", "color"}, k \in KeyArgs : magicCall("Bird", f, i, k)
    \/ \E i \in {"id", "color"}, e \in CursorArgs :
          magicCall("Bird", "allFromIndexCursor", i, e)
    \/ magicCall("Cat", "first", "id", UndefV)
    \/ \E k \in KeyArgs : countFromIndex("Bird", "id", k)
    \/ \E e \in CursorArgs : allFromIndexCursor("Bird", "id", e)

SpecAccessors == InitAccessors /\ [][NextAccessors]_vars

\* ------------------------------------------------------- copy scenario

\* The query functions the application calls on a copy.
CopyOps == {"count", "get", "all", "first", "last", "exists"}

\* Bird registered and bound through Model.init, records saved through Bird,
\* a copy of Bird made for the connected DB, and queries on the copy with
\* valid keys and directions.
NextCopies ==
    \/ connect
    \/ register("Bird")
    \/ \E v \in DBs : init(v)
    \/ \E i \in BirdInstances : save("Bird", i)
    \/ setDB("Bird", "d1")
    \/ \E op \in CopyOps : copyQuery(op, Num(1))
    \/ \E f \in {"allFromIndex", "countFromIndex", "first", "last"} :
          copyMagicCall(f, "id", Num(1))
    \/ copyMagicCall("allFromIndexCursor", "id", "prev")

SpecCopies == InitAccessors /\ [][NextCopies]_vars

\* ------------------------------------------------ declaration scenario

\* Steps declared with classes and with table names, classes registered
\* before and after, the steps added to a DB and the DB connected.
NextDeclare ==
    \/ \E c \in {"Cat", "Bird"} : register(c)
    \/ \E m \in Steps : newTable(m, "Cat", "id", TRUE, <<"color">>)
    \/ newTable("m1", "dogs", "name", FALSE, <<>>)
    \/ \E m \in Steps, c \in {"Cat", "Bird"} : newIndexes(m, c, <<"age">>)
    \/ \E m \in Steps : addMigration(m)
    \/ connect

SpecDeclare == InitRegistry /\ [][NextDeclare]_vars

\* ------------------------------------------------ claims on migrations

\* The identity sequence <<1, ..., n>>: every list position once, ascending.
Positions(n) == [i \in 1..n |-> i]

\* The list positions whose step is newer than the store (version > old).
NewerThan(old) == {i \in 1..lastOpen.len : lastOpen.versions[i] > old}

\* C1: across the opens of a store whose migration list only grows, every
\* step is applied exactly once and in ascending order: after each successful
\* connect the committed runs are exactly the list's positions, in order.
C1_StepsAppliedOnceInOrder ==
    lastOpen.status = "ok" => store.applied = Positions(lastOpen.len)

\* C2: opening a fresh store (no previous version) at the target version
\* runs every step of the list exactly once, in ascending version order.
C2_FreshOpenRunsEveryStep ==
    (lastOpen.status = "ok" /\ lastOpen.upgraded /\ lastOpen.old = 0)
        => lastOpen.ran = Positions(lastOpen.len)

\* C3: an upgrade from old version vk runs exactly the steps whose version is
\* greater than vk, and an open at the version the store has runs none.
C3_RunsExactlyNewerSteps ==
    /\ (lastOpen.status = "ok" /\ lastOpen.upgraded)
           => {lastOpen.ran[j] : j \in 1..Len(lastOpen.ran)} = NewerThan(lastOpen.old)
    /\ (lastOpen.status = "ok" /\ ~lastOpen.upgraded) => lastOpen.ran = <<>>

\* The positions the runner's guard lets through for the latest open.
Due == {i \in 1..lastOpen.len : lastOpen.old < lastOpen.versions[i] - 1}

\* C4: when a task fails during an upgrade, the failing task is the last one
\* executed (no later task, no later step), the open attempt ends in failure,
\* and the store's schema and version are those from before the upgrade.
C4_FailedUpgradeStopsAndRollsBack ==
    lastOpen.failedAt > 0 =>
        /\ lastOpen.status = "AbortError"
        /\ lastOpen.failedAt = Len(lastOpen.log)
        /\ lastOpen.ran[Len(lastOpen.ran)] = lastOpen.log[Len(lastOpen.log)][1]
        /\ store = lastOpen.before

\* A task failed after an earlier task of the same upgrade had succeeded, and
\* a step later in the list was still due.
C4_Witness ==
    /\ lastOpen.failedAt > 1
    /\ \E i \in Due : i > lastOpen.ran[Len(lastOpen.ran)]

\* ---------------------------------------- claims on the migration sequence

\* The elements of a sequence.
Range(q) == {q[j] : j \in 1..Len(q)}

\* The list positions Migration.run has to invoke for the latest call.
RunDue == {i \in 1..Len(lastRun.versions) : lastRun.old < lastRun.versions[i]}

\* C18: Migration.run visits the steps in append order and invokes a step's
\* run exactly when oldVersion < step.version, once per call; when a step
\* throws, the steps before it were handled that way and none after it ran.
C18_RunInvokesExactlyNewerSteps ==
    lastRun.op = "run" =>
        /\ \A j \in 1..(Len(lastRun.ran) - 1) : lastRun.ran[j] < lastRun.ran[j + 1]
        /\ lastRun.failedAt = 0 => Range(lastRun.ran) = RunDue
        /\ lastRun.failedAt > 0 =>
               Range(lastRun.ran) =
                   {i \in RunDue : i <= lastRun.ran[Len(lastRun.ran)]}

\* A call that returned normally, invoked a step and skipped another.
C18_Witness ==
    /\ lastRun.op = "run"
    /\ lastRun.failedAt = 0
    /\ lastRun.ran # <<>>
    /\ Len(lastRun.ran) < Len(lastRun.versions)

\* The steps that were appended to a list.
Listed == Range(seqMigrations) \cup Range(dbMigrations)

\* C19: the steps of a list carry strictly increasing versions from the base
\* version on, in append order, and the list's version is the base plus the
\* number of appended steps; a version once assigned never changes,
\* whatever is appended later, the same step included.
C19_VersionsIncreaseAndStayFixed ==
    /\ [](\A i \in 1..Len(seqMigrations) :
             mvVersion[seqMigrations[i]] = seqVersion - Len(seqMigrations) + i - 1)
    /\ [](\A i \in 1..Len(dbMigrations) :
             mvVersion[dbMigrations[i]] = dbVersion - Len(dbMigrations) + i - 1)
    /\ [][\A m \in Listed : mvVersion'[m] = mvVersion[m]]_vars

\* The tasks the latest Migration.run call executed, in execution order.
Executed == [j \in 1..Len(lastRun.log) |->
                lastRun.tasks[lastRun.log[j][1]][lastRun.log[j][2]]]

\* The execution log a call has when it runs the steps of ran one after the
\* other, each with all its tasks in append order.
RECURSIVE InAppendOrder(_)
InAppendOrder(ran) ==
    IF ran = <<>> THEN <<>>
    ELSE [k \in 1..Len(lastRun.tasks[Head(ran)]) |-> <<Head(ran), k>>]
             \o InAppendOrder(Tail(ran))

\* The index names the executed tasks of the given type declare for table x.
Declared(type, x) ==
    UNION {Range(t.indexes) : t \in {u \in Range(Executed) :
                                         u.type = type /\ u.table = x}}

\* The executed NewTable tasks for table x.
Creating(x) == {t \in Range(Executed) : t.type = "new_table" /\ t.table = x}

\* C20: a run that completes executes the tasks of each invoked step in
\* append order, and the schema afterwards is the one before plus: per
\* NewTable task a table with key path '_' + key, the declared autoincrement
\* flag, an index for the key and one per declared name; per NewIndex task
\* the declared indexes on its table. Nothing else is created or changed.
C20_SchemaIsFoldOfTasks ==
    (lastRun.op = "run" /\ lastRun.failedAt = 0) =>
        /\ lastRun.log = InAppendOrder(lastRun.ran)
        /\ DOMAIN store.schema =
               DOMAIN lastRun.before \cup {t.table : t \in Range(Executed)}
        /\ \A x \in DOMAIN lastRun.before :
               store.schema[x] =
                   [lastRun.before[x] EXCEPT !.indexes = @ \cup Declared("new_index", x)]
        /\ \A x \in DOMAIN store.schema \ DOMAIN lastRun.before :
               \E t \in Creating(x) :
                   /\ Creating(x) = {t}
                   /\ store.schema[x] =
                          [keyPath |-> "_" \o t.key,
                           autoIncrement |-> t.autoincrement,
                           indexes |-> {t.key} \cup Range(t.indexes)
                                           \cup Declared("new_index", x)]

\* A completed run created a table next to an existing one and added an
\* index to a table.
C20_Witness ==
    /\ lastRun.op = "run"
    /\ lastRun.failedAt = 0
    /\ DOMAIN lastRun.before # {}
    /\ DOMAIN store.schema # DOMAIN lastRun.before
    /\ \E t \in Range(Executed) : t.type = "new_index"

\* -------------------------------------- claims on registry and binding

\* C5: registering a class whose class name is already registered by another
\* class throws a configuration error and leaves the first class's entry as
\* it was.
C5_DuplicateNameRejected ==
    [][\A c \in Types :
          (/\ lastOp'.op = "register" /\ lastOp'.target = c
           /\ class_name(c) \in DOMAIN clases
           /\ clases[class_name(c)] # c)
              => (lastOp'.err = "ConfigurationError" /\ clases' = clases)]_vars

\* A class that registerClass must refuse: it does not extend Model, or its
\* table name or class name is still the placeholder 'Model'.
Malformed(c) ==
    \/ ~ExtendsModel(c)
    \/ table_name(c) = "Model"
    \/ class_name(c) = "Model"

\* C6: registering a class that does not extend Model, or whose table name or
\* class name is the placeholder 'Model', throws a configuration error and
\* leaves the registry unchanged; every registry entry has a table name and a
\* class name other than the placeholder.
C6_MalformedClassRejected ==
    /\ [](\A n \in DOMAIN clases :
             /\ n # "Model" /\ class_name(clases[n]) = n
             /\ table_name(clases[n]) # "Model"
             /\ ExtendsModel(clases[n]))
    /\ [][\A c \in Types :
             (lastOp'.op = "register" /\ lastOp'.target = c /\ Malformed(c))
                => (lastOp'.err = "ConfigurationError" /\ clases' = clases)]_vars

\* A class that keeps the placeholder class name was refused while the
\* registry held other classes.
C6_Witness ==
    /\ lastOp.op = "register" /\ lastOp.target = "NoClass"
    /\ lastOp.err = "ConfigurationError"
    /\ Cardinality(DOMAIN clases) >= 2

\* C7: binding a store on one registered class, by c.db = d or c.setDB(d),
\* changes neither the store any other registered class resolves nor Model's
\* own binding, and c.setDB(d) leaves the store c resolves unchanged too.
C7_TypeBindLeavesOthers ==
    [][(lastOp'.op \in {"T.db", "setDB"} /\ lastOp'.target \in Registered)
          => /\ \A u \in Registered \ {lastOp'.target} :
                    LookupDb(classDb', u) = LookupDb(classDb, u)
             /\ classDb'["Model"] = classDb["Model"]
             /\ lastOp'.op = "setDB"
                    => LookupDb(classDb', lastOp'.target)
                           = LookupDb(classDb, lastOp'.target)]_vars

\* c and the classes it extends, below Model.
RECURSIVE Chain(_)
Chain(c) == IF c \notin Types THEN {} ELSE {c} \cup Chain(TypeDecl[c].extends)

\* A shared bind with a value that is no DB instance throws and changes no
\* binding.
BadSharedBindChangesNothing ==
    (lastOp'.op \in {"Model.db", "init"} /\ ~lastOp'.valid)
        => (lastOp'.err = "ConfigurationError" /\ classDb' = classDb)

\* C8 (as claimed): once a store d is bound on Model, every registered class
\* resolves d, whenever it was registered and whether or not it was bound
\* before, until that class is bound individually or Model is bound again; a
\* bind with a value that is no DB instance fails and changes no binding.
C8_SharedBindReachesAll ==
    /\ [](classDb["Model"] # Undef =>
             \A c \in Registered :
                 boundBy[c] # "after" => db(c) = classDb["Model"])
    /\ [][BadSharedBindChangesNothing]_vars

\* C8 (amended): the same, for the registered classes that neither hold, nor
\* extend a class that holds, an own binding the latest shared bind did not
\* write (one it skipped because the class was not registered at that time,
\* or one set on the class afterwards).
C8_SharedBindReachesUnboundChains ==
    /\ [](classDb["Model"] # Undef =>
             \A c \in Registered :
                 (\A u \in Chain(c) : boundBy[u] \in {"none", "shared"})
                     => db(c) = classDb["Model"])
    /\ [][BadSharedBindChangesNothing]_vars

\* After a shared bind, a class that had been bound by itself before resolves
\* the shared store through its own, overwritten binding, and a class
\* registered without any own binding resolves it through Model.
C8_Witness ==
    /\ classDb["Model"] = "d2"
    /\ classDb["Cat"] = "d2" /\ boundBy["Cat"] = "shared"
    /\ "Dog" \in Registered /\ classDb["Dog"] = Undef /\ db("Dog") = "d2"
    /\ lastOp.op = "register" /\ lastOp.target = "Dog"

\* ---------------------------------------------------- claims on records

\* The ids of the records the table of class c holds.
HeldIds(c) == {r["_id"] : r \in rows[table_name(c)]}

\* The latest call was op, made on a class whose store was bound and
\* connected and held the class's table with its id index.
Reached(op) == lastQuery.op = op /\ lastQuery.ready

\* C9: for every table state and every id (a valid key), get(id) resolves
\* without error, to an empty instance when no record has the id and to a
\* non-empty one when a record has it; exists(id) is true exactly when a
\* record has the id, that is exactly when get(id) is non-empty.
C9_GetEmptyIffAbsent ==
    /\ Reached("get") =>
           /\ lastQuery.err = "none"
           /\ isEmpty(lastQuery.inst) <=> lastQuery.id \notin HeldIds(lastQuery.class)
    /\ Reached("exists") =>
           /\ lastQuery.err = "none"
           /\ lastQuery.found <=> lastQuery.id \in HeldIds(lastQuery.class)
           /\ lastQuery.found <=> ~isEmpty(lastQuery.inst)

\* get found a record while the table also holds another one.
C9_Witness ==
    /\ Reached("get")
    /\ ~isEmpty(lastQuery.inst)
    /\ \E id \in HeldIds(lastQuery.class) : id # lastQuery.id

\* C10: for a type declared as the README shows, get(id) after save() on the
\* same primary key returns an instance whose fields equal those of the
\* saved instance.
C10_SaveGetRoundTrip ==
    (Reached("get") /\ lastQuery.registered /\ lastQuery.id \in DOMAIN saved)
        => lastQuery.inst = saved[lastQuery.id]

\* -------------------------------------------------------- claims on ids

\* The numeric ids the table of class c holds.
IdNumbers(c) == {r["_id"].n : r \in rows[table_name(c)]}

\* The lowest of a non-empty set of integers.
Lowest(S) == CHOOSE x \in S : \A y \in S : x <= y

\* C11: nextNewId() resolves to -1 when the table is empty or its lowest id
\* is 0 or more, and to the lowest id minus one when that id is negative; the
\* result is always a negative integer.
C11_NextNewIdBelowLowest ==
    Reached("nextNewId") =>
        LET ids == IdNumbers(lastQuery.class)
        IN /\ lastQuery.err = "none"
           /\ lastQuery.id.k = "number"
           /\ lastQuery.id.n < 0
           /\ lastQuery.id.n = IF ids = {} \/ Lowest(ids) >= 0 THEN -1
                               ELSE Lowest(ids) - 1

\* nextNewId() was called on a table that holds a negative and a
\* non-negative id.
C11_Witness ==
    /\ Reached("nextNewId")
    /\ \E x, y \in IdNumbers(lastQuery.class) : x < 0 /\ y >= 0

\* C12: whenever a caller is handed an id by nextNewId(), the table holds no
\* record with that id and no other caller holds that id still unsaved.
C12_ReservedIdsNeverCollide ==
    [][\A p \in Callers :
          (callers[p] = NoId /\ callers'[p] # NoId) =>
              /\ callers'[p].n \notin IdNumbers("Cat")
              /\ \A q \in Callers \ {p} : callers[q] # callers'[p]]_vars

\* ------------------------------------------------- claims on operations

\* C13: type-level remove(id) completes without error; a record with that id
\* is absent from the table afterwards while every other record stays, and
\* when no record has the id the table is left as it was.
C13_TypeRemoveDeletesById ==
    [][(lastQuery'.op = "remove" /\ lastQuery'.ready /\ lastQuery' # lastQuery) =>
          /\ lastQuery'.err = "none"
          /\ rows' = [rows EXCEPT ![table_name(lastQuery'.class)] =
                         {r \in @ : r["_id"] # lastQuery'.id}]]_vars

\* The positions of array whose object has no valid key.
Keyless(array) ==
    {k \in 1..Len(array) :
        "_id" \notin DOMAIN array[k] \/ ~ValidKey(array[k]["_id"])}

\* The positions of array whose key is held by the records have or by an
\* earlier object of the array.
Clashing(array, have) ==
    {k \in 1..Len(array) \ Keyless(array) :
        \/ \E r \in have : r["_id"] = array[k]["_id"]
        \/ \E j \in 1..(k - 1) : j \notin Keyless(array)
                                  /\ array[j]["_id"] = array[k]["_id"]}

\* C14: a batch store succeeds exactly when every insert of the batch
\* succeeds, and then every object of the batch is in the table; when an
\* insert fails the call fails, with the failure that happens first: the
\* DataError thrown while the inserts are issued, at the first object without
\* a valid key, else the ConstraintError of the first insert whose key exists.
C14_BatchStoreAllOrFirstFailure ==
    [][(lastQuery'.op = "store" /\ lastQuery'.ready /\ lastQuery' # lastQuery) =>
          LET array == lastQuery'.inst
              have == rows[table_name(lastQuery'.class)]
              bad == Keyless(array)
              dup == Clashing(array, have)
          IN /\ lastQuery'.err = "none" <=> bad \cup dup = {}
             /\ lastQuery'.err = "none" =>
                    rows'[table_name(lastQuery'.class)] = have \cup Range(array)
             /\ bad # {} =>
                    /\ lastQuery'.err = "DataError"
                    /\ lastQuery'.id.n = Lowest(bad)
             /\ (bad = {} /\ dup # {}) =>
                    /\ lastQuery'.err = "ConstraintError"
                    /\ lastQuery'.id.n = Lowest(dup)]_vars

\* A batch of two whose first insert succeeded and whose second failed.
C14_Witness ==
    /\ lastQuery.op = "store"
    /\ lastQuery.ready
    /\ Len(lastQuery.inst) = 2
    /\ lastQuery.err = "ConstraintError"
    /\ lastQuery.id.n = 2

\* C17: a query or persistence operation called on a type without a bound
\* store raises the unbound-store error synchronously, at the call.
C17_UnboundErrorIsSynchronous ==
    (/\ lastQuery.op \in {"all", "allFromIndex", "get", "count", "first", "last",
                          "exists", "save", "update", "remove", "removeInstance",
                          "nextNewId"}
     /\ lastQuery.err = "UnboundStoreError")
        => lastQuery.thrown

\* -------------------------------------------------- claims on accessors

\* C15: for a registered type with recorded index names, the accessor
\* generated for function f and index i, called with any argument k (falsy
\* values included), returns what T.f(i, k) returns.
C15_AccessorEqualsDirectCall ==
    [][(/\ lastQuery' # lastQuery
        /\ lastQuery'.via # "direct"
        /\ lastQuery'.class \in Registered
        /\ <<lastQuery'.class, lastQuery'.via>> \in DOMAIN magic)
          => LET q == lastQuery'
                 r == DirectCall(q.class, q.op, q.index,
                          IF q.op = "allFromIndexCursor" THEN q.extreme ELSE q.id)
             IN /\ q.err = r.err
                /\ q.inst = r.inst]_vars

\* C16: invoking the accessor generation again (Model.init with a store),
\* also after further types were registered, completes without error and
\* leaves every accessor generated before in place and unchanged.
C16_RegenerationKeepsAccessors ==
    [][(/\ <<lastOp, classDb, boundBy, magic>>' # <<lastOp, classDb, boundBy, magic>>
        /\ lastOp'.op = "init"
        /\ lastOp'.valid
        /\ DOMAIN magic # {})
          => /\ lastOp'.err = "none"
             /\ \A x \in DOMAIN magic : x \in DOMAIN magic' /\ magic'[x] = magic[x]]_vars

\* ----------------------------------------------- claims on declarations

\* The index names recorded against class c: the names clase.indexes lists.
Recorded(c) == UNION {Range(q) : q \in indexesOf(c)}

\* The task a newTable / newIndexes step has appended.
Appended ==
    LET m == CHOOSE x \in Steps : mvTasks'[x] # mvTasks[x]
    IN mvTasks'[m][Len(mvTasks'[m])]

\* C21: every registered type has an index set recorded against it, the
\* union of the index sets that newTable and newIndexes calls declared for
\* it (each call for a registered type adds its index names to the set,
\* which is empty without calls); such a call changes only the step's task
\* list, never the store.
C21_DeclaredIndexesRecorded ==
    /\ [](\A c \in Registered : indexesOf(c) # {})
    /\ [][mvTasks' # mvTasks =>
            /\ \A c \in Registered :
                  table_name(c) = Appended.table =>
                      Recorded(c)' = Recorded(c) \cup Range(Appended.indexes)
            /\ UNCHANGED <<store, dbConnection, dbVersion, dbMigrations, lastOpen>>]_vars

\* ---------------------------------------------------- claims on copies

\* What class c itself answers to the call the record q describes.
OnType(c, q) ==
    IF q.via # "direct"
    THEN MagicCall(c, q.via, IF q.op = "allFromIndexCursor" THEN q.extreme ELSE q.id)
    ELSE CASE q.op = "count" -> ModelCount(c)
           [] q.op = "all" -> ModelAll(c)
           [] q.op \in {"get", "exists"} -> ModelGet(c, q.id)
           [] q.op = "first" -> ModelFirst(c, "id")
           [] q.op = "last" -> ModelLast(c, "id")

\* The copy's store is connected and holds the table of T with its id index.
CopyReady(cp) ==
    /\ CopyAccessError(cp) = "none"
    /\ "id" \in store.schema[table_name(cp.proto)].indexes

\* C22: a query (count, get, all, first, last, exists, a generated accessor)
\* on the copy T.setDB(d) returned completes against store d: with d ready
\* and a valid argument it does not fail, and where T is bound to d itself
\* it gives the result T gives.
C22_CopyQueriesAnswerLikeType ==
    [][(lastQuery' # lastQuery /\ lastQuery'.on = "copy") =>
          LET q == lastQuery'
              cp == HeldCopy
          IN /\ (CopyReady(cp) /\ cp.proto \in Registered
                 /\ (q.via # "direct" => <<cp.proto, q.via>> \in DOMAIN magic))
                    => q.err = "none"
             /\ db(cp.proto) = cp.db =>
                    /\ q.err = OnType(cp.proto, q).err
                    /\ q.inst = OnType(cp.proto, q).inst]_vars

====
